---- MODULE Spec2Model ----
(***************************************************************************)
(* Model of rocket_learn/worker.py: the opponent pool kept in Redis, the   *)
(* Learner-side writers (update_model, add_opponent), the quality update   *)
(* (update_opponent_quality) and the rollout worker loop (worker); and of   *)
(* rocket_learn/game_manager/default_manager.py: DefaultManager._episode.   *)
(*                                                                         *)
(* Every Redis command is one atomic step (Redis executes commands, and    *)
(* EVAL scripts, one at a time); a Python function that issues several     *)
(* commands is a sequence of steps that other processes may interleave.    *)
(*                                                                         *)
(* Representation choices:                                                 *)
(*  - a string key is a sequence of length 0 (key absent, GET gives None)  *)
(*    or 1 (the value);                                                    *)
(*  - qualities are exact rationals stored as integers in units of         *)
(*    1/Scale; floating point rounding is not modelled;                    *)
(*  - worker.py refers to Keys.MODEL_LATEST, Keys.VERSION_LATEST and       *)
(*    Keys.OP_MODELS although it defines the key names as module           *)
(*    constants; Keys.X is read as the key the constant X names, and       *)
(*    Keys.OP_MODELS as the list whose i-th element MODEL_N.format(i)      *)
(*    addresses.                                                           *)
(***************************************************************************)
EXTENDS Integers, Sequences, FiniteSets, TLC

\* ---------------------------------------------------------------- bounds
\* number of add_opponent calls the Learner makes
MaxPool == 2
\* number of update_model calls the Learner makes
MaxPublish == 2
\* number of concurrent callers of update_opponent_quality
NUpdaters == 2

\* number of seats (match.agents) the worker is configured with, at most
MaxAgents == 3
\* number of iterations of the worker's loop
MaxIters == 2
\* largest denominator of a target fraction p, and largest seat count, for
\* the adjusted probability taken on its own
MaxDen == 10
MaxSeats == 6
\* number of cars of an episode
NCars == 2
\* env step at which the environment ends every seat still active (timeout)
MaxSteps == 3

Updaters == 1..NUpdaters
Cars == 1..NCars
\* the identifiers of the two agent variants of a matchup
Identifiers == {"latest", "historical"}

\* worker.py, lines 18-22: the key names
MODEL_LATEST == "model-latest"

RECURSIVE Factorial(_)
Factorial(k) == IF k <= 1 THEN 1 ELSE k * Factorial(k - 1)

\* qualities are stored in units of 1/Scale, so that rate / (n * prob) is
\* exact for every list length n the model reaches
Scale == Factorial(MaxPool)

\* selection probabilities handed to update_opponent_quality, as num/den
Probs == {[num |-> 1, den |-> 1], [num |-> 1, den |-> 2]}
\* outcome rates handed to update_opponent_quality
Rates == {-1, 1}

\* ----------------------------------------------------------------- state
VARIABLES
    model_latest,     \* key MODEL_LATEST: <<>> or <<blob>>
    version_latest,   \* key VERSION_LATEST: <<>> or <<version>>
    op_models,        \* list Keys.OP_MODELS: the historical snapshots
    qualities,        \* list QUALITIES, in units of 1/Scale
    rollouts,         \* list ROLLOUTS (number of rollouts pushed)
    l_pc,             \* Learner: position inside update_model / add_opponent
    l_blob,           \* Learner: state_dict_dump argument of the running call
    l_version,        \* Learner: version argument of update_model
    l_quality,        \* Learner: local `quality` of add_opponent
    n_published,      \* Learner: number of completed update_model calls
    q_original,       \* history: the quality each list entry was created with
    u_pc,             \* update_opponent_quality caller: position
    u_index,          \*   argument index
    u_prob,           \*   argument prob
    u_rate,           \*   argument rate
    u_n,              \*   local n of line 62
    u_delta,          \*   local delta (units of 1/Scale)
    u_over,           \* history: length of the quality list when the caller
                      \*   obtained its (index, prob)
    delta_log,        \* history: the (caller, index, prob) of every EVAL run
    r_pc,             \* reader of the latest pair: position
    r_blob,           \*   blob it obtained (<<>> or <<blob>>)
    r_version,        \*   version it obtained
    n_agents,         \* worker: match.agents, the number of seats
    w_pc,             \* worker: position in the loop of worker()
    w_err,            \* worker: the exception that ended it, if any
    current_agent,    \* worker: local current_agent
    agents,           \* worker: local list agents
    w_i,              \* worker: loop variable i of line 97
    w_index,          \* worker: local index of line 100
    w_prob,           \* worker: local prob of line 100
    w_rollouts,       \* worker: number of rollouts generate_episode returned
    w_iters,          \* worker: completed iterations of the while loop
    adj_pc,           \* adjusted probability on its own: position
    adj_p,            \*   current_version_prob, as num/den
    adj_n,            \*   n_agents
    adj_out,          \*   adjusted_prob, as num/den
    e_pc,             \* _episode: position
    e_err,            \* _episode: the exception that ended it, if any
    car_identifier,   \* _episode: argument, car -> identifier of its agent
    identifier_cars,  \* _episode: local, identifier -> set of its cars
    env_agents,       \* env.agents: the seats still active
    env_tick,         \* env: number of steps taken since reset
    observations,     \* _episode: keys of the local dict observations
    terminated,       \* _episode: local dict terminated
    truncated,        \* _episode: local dict truncated
    all_states,       \* _episode: local list all_states (env ticks)
    total_agent_steps,\* _episode: local total_agent_steps
    removed_cars,     \* _episode: local set removed_cars
    end_calls,        \* history: per car, the agent.end calls covering it
    act_after_end,    \* history: cars an action was requested for after
                      \*   they had ended
    e_agent_steps     \* history: sum over the steps of the seats stepped

storeVars == <<model_latest, version_latest, op_models, qualities, rollouts>>
learnerVars == <<l_pc, l_blob, l_version, l_quality, n_published, q_original>>
updaterVars == <<u_pc, u_index, u_prob, u_rate, u_n, u_delta, u_over,
                 delta_log>>
readerVars == <<r_pc, r_blob, r_version>>
workerVars == <<n_agents, w_pc, w_err, current_agent, agents, w_i, w_index,
                w_prob, w_rollouts, w_iters>>
adjVars == <<adj_pc, adj_p, adj_n, adj_out>>
episodeVars == <<e_pc, e_err, car_identifier, identifier_cars, env_agents,
                 env_tick, observations, terminated, truncated, all_states,
                 total_agent_steps, removed_cars, end_calls, act_after_end,
                 e_agent_steps>>
vars == <<storeVars, learnerVars, updaterVars, readerVars, workerVars, adjVars,
          episodeVars>>

\* ------------------------------------------------------- pure functions
RECURSIVE SeqMax(_)
\* Python max() over a non-empty list
SeqMax(s) ==
    IF Len(s) = 1 THEN s[1]
    ELSE LET m == SeqMax(Tail(s)) IN IF s[1] >= m THEN s[1] ELSE m

\* add_opponent, lines 38-41: max of the qualities read, or 0
InitialQuality(qs) == IF Len(qs) > 0 THEN SeqMax(qs) ELSE 0

\* update_opponent_quality, line 63: delta = rate / (n * prob)
QualityDelta(n, prob, rate) == (rate * prob.den * Scale) \div (n * prob.num)

\* variant of LuaScript: adds delta to every score of the list
LuaScriptAddsToAll(list, index, delta) ==
    [i \in 1..Len(list) |-> list[i] + delta]

\* variant of LuaScript: stores delta where the script stores q + delta
LuaScriptStoresDelta(list, index, delta) == [list EXCEPT ![index + 1] = delta]

\* the Lua script of update_opponent_quality, lines 66-69, on the list:
\* q = LINDEX list index; LSET list index (q + delta)
LuaScript(list, index, delta) == [list EXCEPT ![index + 1] = @ + delta]

\* ------------------------------------------------------------------ Init
InitStore ==
    /\ model_latest = <<>>
    /\ version_latest = <<>>
    /\ op_models = <<>>
    /\ qualities = <<>>
    /\ rollouts = 0

InitLearner ==
    /\ l_pc = "idle"
    /\ l_blob = [params |-> 0]
    /\ l_version = 0
    /\ l_quality = 0
    /\ n_published = 0
    /\ q_original = <<>>

InitUpdaters ==
    /\ u_pc = [u \in Updaters |-> "idle"]
    /\ u_index = [u \in Updaters |-> 0]
    /\ u_prob = [u \in Updaters |-> [num |-> 1, den |-> 1]]
    /\ u_rate = [u \in Updaters |-> 1]
    /\ u_n = [u \in Updaters |-> 0]
    /\ u_delta = [u \in Updaters |-> 0]
    /\ u_over = [u \in Updaters |-> 0]
    /\ delta_log = {}

InitReader ==
    /\ r_pc = "idle"
    /\ r_blob = <<>>
    /\ r_version = <<>>

InitWorkerLocals ==
    /\ w_err = "none"
    /\ current_agent = [params |-> 0]
    /\ agents = <<>>
    /\ w_i = 0
    /\ w_index = 0
    /\ w_prob = [num |-> 0, den |-> 1]
    /\ w_rollouts = 0
    /\ w_iters = 0

InitAdjIdle ==
    /\ adj_pc = "idle"
    /\ adj_p = [num |-> 4, den |-> 5]
    /\ adj_n = 2
    /\ adj_out = [num |-> 0, den |-> 1]

InitEpisodeLocals ==
    /\ e_err = "none"
    /\ identifier_cars = <<>>
    /\ env_agents = {}
    /\ env_tick = 0
    /\ observations = {}
    /\ terminated = <<>>
    /\ truncated = <<>>
    /\ all_states = <<>>
    /\ total_agent_steps = 0
    /\ removed_cars = {}
    /\ end_calls = [c \in Cars |-> 0]
    /\ act_after_end = {}
    /\ e_agent_steps = 0

InitEpisodeIdle ==
    /\ InitEpisodeLocals
    /\ e_pc = "idle"
    /\ car_identifier = [c \in Cars |-> "latest"]

\* the store, its writers and its readers; no worker is running
Init ==
    /\ InitStore /\ InitLearner /\ InitUpdaters /\ InitReader
    /\ InitWorkerLocals /\ InitAdjIdle /\ InitEpisodeIdle
    /\ n_agents = 1
    /\ w_pc = "not_started"

\* ------------------------------------------------ Learner: update_model
\* the Learner calls update_model(redis, blob, version); line 26 runs
UpdateModelDeleteModel ==
    /\ l_pc = "idle"
    /\ l_version < MaxPublish
    /\ l_blob' = [params |-> l_version + 1]
    /\ l_version' = l_version + 1
    /\ model_latest' = <<>>
    /\ l_pc' = "um_delete_version"
    /\ UNCHANGED <<version_latest, op_models, qualities, rollouts,
                   l_quality, n_published, q_original>>
    /\ UNCHANGED <<updaterVars, readerVars, workerVars, adjVars, episodeVars>>

\* line 27
UpdateModelDeleteVersion ==
    /\ l_pc = "um_delete_version"
    /\ version_latest' = <<>>
    /\ l_pc' = "um_set_model"
    /\ UNCHANGED <<model_latest, op_models, qualities, rollouts,
                   l_blob, l_version, l_quality, n_published, q_original>>
    /\ UNCHANGED <<updaterVars, readerVars, workerVars, adjVars, episodeVars>>

\* line 29
UpdateModelSetModel ==
    /\ l_pc = "um_set_model"
    /\ model_latest' = <<l_blob>>
    /\ l_pc' = "um_set_version"
    /\ UNCHANGED <<version_latest, op_models, qualities, rollouts,
                   l_blob, l_version, l_quality, n_published, q_original>>
    /\ UNCHANGED <<updaterVars, readerVars, workerVars, adjVars, episodeVars>>

\* line 30, and the return
UpdateModelSetVersion ==
    /\ l_pc = "um_set_version"
    /\ version_latest' = <<l_version>>
    /\ n_published' = n_published + 1
    /\ l_pc' = "idle"
    /\ UNCHANGED <<model_latest, op_models, qualities, rollouts,
                   l_blob, l_version, l_quality, q_original>>
    /\ UNCHANGED <<updaterVars, readerVars, workerVars, adjVars, episodeVars>>

\* ------------------------------------------------ Learner: add_opponent
\* the Learner calls add_opponent(redis, blob); line 35 runs
AddOpponentPushModel ==
    /\ l_pc = "idle"
    /\ Len(op_models) < MaxPool
    /\ l_blob' = [params |-> l_version]
    /\ op_models' = Append(op_models, [params |-> l_version])
    /\ l_pc' = "ao_lrange"
    /\ UNCHANGED <<model_latest, version_latest, qualities, rollouts,
                   l_version, l_quality, n_published, q_original>>
    /\ UNCHANGED <<updaterVars, readerVars, workerVars, adjVars, episodeVars>>

\* lines 37-41
AddOpponentReadQualities ==
    /\ l_pc = "ao_lrange"
    /\ l_quality' = InitialQuality(qualities)
    /\ l_pc' = "ao_rpush"
    /\ UNCHANGED <<storeVars, l_blob, l_version, n_published, q_original>>
    /\ UNCHANGED <<updaterVars, readerVars, workerVars, adjVars, episodeVars>>

\* variant of AddOpponentPushQuality: the RPUSH sits inside the `if
\* qualities:` branch, so the first snapshot gets no quality
AddOpponentPushQualityIfAny ==
    /\ l_pc = "ao_rpush"
    /\ qualities' = IF Len(qualities) > 0 THEN Append(qualities, l_quality)
                    ELSE qualities
    /\ q_original' = qualities'
    /\ l_pc' = "idle"
    /\ UNCHANGED <<model_latest, version_latest, op_models, rollouts,
                   l_blob, l_version, l_quality, n_published>>
    /\ UNCHANGED <<updaterVars, readerVars, workerVars, adjVars, episodeVars>>

\* line 42, and the return
AddOpponentPushQuality ==
    /\ l_pc = "ao_rpush"
    /\ qualities' = Append(qualities, l_quality)
    /\ q_original' = Append(q_original, l_quality)
    /\ l_pc' = "idle"
    /\ UNCHANGED <<model_latest, version_latest, op_models, rollouts,
                   l_blob, l_version, l_quality, n_published>>
    /\ UNCHANGED <<updaterVars, readerVars, workerVars, adjVars, episodeVars>>

\* ------------------------------------------- update_opponent_quality
\* a caller enters update_opponent_quality(redis, index, prob, rate).
\* prob is the probability of a selection, so the list was non-empty when
\* it was computed, and the list never shrinks.  The call stands for the
\* moment the caller obtains (index, prob); lines 62-70 run later.
UpdateQualityCall(u) ==
    /\ u_pc[u] = "idle"
    /\ Len(qualities) > 0
    /\ \E i \in 0..(MaxPool - 1), p \in Probs, r \in Rates :
          /\ u_index' = [u_index EXCEPT ![u] = i]
          /\ u_prob' = [u_prob EXCEPT ![u] = p]
          /\ u_rate' = [u_rate EXCEPT ![u] = r]
    /\ u_over' = [u_over EXCEPT ![u] = Len(qualities)]
    /\ u_pc' = [u_pc EXCEPT ![u] = "llen"]
    /\ UNCHANGED <<u_n, u_delta, delta_log>>
    /\ UNCHANGED <<storeVars, learnerVars, readerVars, workerVars, adjVars, episodeVars>>

\* lines 62-63
UpdateQualityLlen(u) ==
    /\ u_pc[u] = "llen"
    /\ u_n' = [u_n EXCEPT ![u] = Len(qualities)]
    /\ u_delta' = [u_delta EXCEPT ![u] =
                      QualityDelta(Len(qualities), u_prob[u], u_rate[u])]
    /\ u_pc' = [u_pc EXCEPT ![u] = "eval"]
    /\ UNCHANGED <<u_index, u_prob, u_rate, u_over, delta_log>>
    /\ UNCHANGED <<storeVars, learnerVars, readerVars, workerVars, adjVars, episodeVars>>

\* lines 65-70: the script runs atomically in the server.  An index past the
\* end makes LINDEX return nil, the addition fails, the script aborts before
\* LSET and redis-py raises ResponseError in the caller.  The call is over
\* either way: of its locals only index and delta are kept, as the record
\* of what the call did.
UpdateQualityEval(u) ==
    /\ u_pc[u] = "eval"
    /\ IF u_index[u] < Len(qualities)
       THEN /\ qualities' = LuaScript(qualities, u_index[u], u_delta[u])
            /\ delta_log' = delta_log \cup
                  {[caller |-> u, index |-> u_index[u], prob |-> u_prob[u]]}
            /\ u_pc' = [u_pc EXCEPT ![u] = "done"]
       ELSE /\ UNCHANGED <<qualities, delta_log>>
            /\ u_pc' = [u_pc EXCEPT ![u] = "raised"]
    /\ u_prob' = [u_prob EXCEPT ![u] = [num |-> 1, den |-> 1]]
    /\ u_rate' = [u_rate EXCEPT ![u] = 1]
    /\ u_n' = [u_n EXCEPT ![u] = 0]
    /\ u_over' = [u_over EXCEPT ![u] = 0]
    /\ UNCHANGED <<model_latest, version_latest, op_models, rollouts>>
    /\ UNCHANGED <<u_index, u_delta>>
    /\ UNCHANGED <<learnerVars, readerVars, workerVars, adjVars, episodeVars>>

\* ---------------------------------------------------- reader of the pair
\* read_latest() -> (blob, version) as one point-in-time read of both keys
ReadLatest ==
    /\ r_pc = "idle"
    /\ r_blob' = model_latest
    /\ r_version' = version_latest
    /\ r_pc' = "read"
    /\ UNCHANGED <<storeVars, learnerVars, updaterVars, workerVars, adjVars, episodeVars>>

\* the reader goes on to read again
ReadAgain ==
    /\ r_pc = "read"
    /\ r_pc' = "idle"
    /\ r_blob' = <<>>
    /\ r_version' = <<>>
    /\ UNCHANGED <<storeVars, learnerVars, updaterVars, workerVars, adjVars, episodeVars>>

\* ---------------------------------------------------------------- worker
\* line 75: current_version_prob = .8, as num/den
CurrentVersionProb == [num |-> 4, den |-> 5]

\* variant of AdjustedProb: leaves out the reserved seat's "- 1"
AdjustedProbNoReserve(p, n) == [num |-> p.num * n, den |-> p.den * (n - 1)]

\* variant of AdjustedProb: divides by n_agents where the code divides by
\* n_agents - 1
AdjustedProbOverN(p, n) == [num |-> p.num * n - p.den, den |-> p.den * n]

\* line 96: (current_version_prob * n_agents - 1) / (n_agents - 1), as num/den
AdjustedProb(p, n) == [num |-> p.num * n - p.den, den |-> p.den * (n - 1)]

\* line 98: np.random.random() lies in [0, 1), so `random < adjusted_prob`
\* can be True iff adjusted_prob > 0 and can be False iff adjusted_prob < 1
IsCurrentOutcomes(adj) ==
    {b \in BOOLEAN : IF b THEN adj.num > 0 ELSE adj.num < adj.den}

\* line 101: MODEL_N.format(index)
ModelN(index) == "model-" \o ToString(index)

\* variant of GetModelN: the snapshot one position further on
GetModelNOneBased(index) ==
    IF index + 1 < Len(op_models) THEN <<op_models[index + 2]>> ELSE <<>>

\* line 102: redis.get(version) for version = MODEL_N.format(index): the
\* snapshot stored at position index, or <<>> (None) when there is none
GetModelN(index) ==
    IF index < Len(op_models) THEN <<op_models[index + 1]>> ELSE <<>>

\* line 110: the orders np.random.shuffle can leave the list in
Shuffles(s) ==
    LET n == Len(s)
        perms == {f \in [1..n -> 1..n] : \A i, j \in 1..n : i # j => f[i] # f[j]}
    IN  {[i \in 1..n |-> s[f[i]]] : f \in perms}

\* the (agent, version) tuple of line 92 and the (agent, version, prob)
\* tuple of line 108
Seat2(agent, version) == [agent |-> agent, version |-> version]
Seat3(agent, version, prob) ==
    [agent |-> agent, version |-> version, prob |-> prob]

\* variant of AfterSeat: the loop runs range(n_agents) passes
AfterSeatFullRange(i) == IF i + 1 < n_agents THEN "draw" ELSE "shuffle"

\* after the i-th pass of the loop of line 97: next pass, or line 110
AfterSeat(i) == IF i + 1 < n_agents - 1 THEN "draw" ELSE "shuffle"

\* lines 89-94: read the latest blob; msgpack.loads(None) raises TypeError
WorkerFetchLatest ==
    /\ w_pc = "fetch"
    /\ w_iters < MaxIters
    /\ IF model_latest = <<>>
       THEN /\ w_pc' = "crashed"
            /\ w_err' = "latest_missing"
            /\ UNCHANGED <<current_agent, agents, w_i>>
       ELSE /\ current_agent' = model_latest[1]
            /\ agents' = <<Seat2(model_latest[1], MODEL_LATEST)>>
            /\ w_i' = 0
            /\ w_pc' = IF n_agents > 1 THEN "draw" ELSE "shuffle"
            /\ UNCHANGED w_err
    /\ UNCHANGED <<n_agents, w_index, w_prob, w_rollouts, w_iters>>
    /\ UNCHANGED <<storeVars, learnerVars, updaterVars, readerVars, adjVars, episodeVars>>

\* lines 96-99 and 103-108: draw is_current; a current seat is appended
WorkerDraw ==
    /\ w_pc = "draw"
    /\ \E is_current \in IsCurrentOutcomes(AdjustedProb(CurrentVersionProb, n_agents)) :
          IF is_current
          THEN /\ w_prob' = CurrentVersionProb
               /\ agents' = Append(agents,
                       Seat3(current_agent, MODEL_LATEST, CurrentVersionProb))
               /\ w_i' = w_i + 1
               /\ w_pc' = AfterSeat(w_i)
          ELSE /\ w_pc' = "sample"
               /\ UNCHANGED <<w_prob, agents, w_i>>
    /\ UNCHANGED <<n_agents, w_err, current_agent, w_index, w_rollouts, w_iters>>
    /\ UNCHANGED <<storeVars, learnerVars, updaterVars, readerVars, adjVars, episodeVars>>

\* line 100, get_opponent_index (lines 51-57): LRANGE, softmax, choice.
\* np.max of the empty array raises ValueError.  Softmax gives every index a
\* positive probability; the probability is kept as the list it was computed
\* over and the position chosen.
WorkerSample ==
    /\ w_pc = "sample"
    /\ IF Len(qualities) = 0
       THEN /\ w_pc' = "crashed"
            /\ w_err' = "softmax_of_empty"
            /\ UNCHANGED <<w_index, w_prob>>
       ELSE /\ \E index \in 0..(Len(qualities) - 1) :
                  /\ w_index' = index
                  /\ w_prob' = [softmax_of |-> qualities, at |-> index]
            /\ w_pc' = "get_model"
            /\ UNCHANGED w_err
    /\ UNCHANGED <<n_agents, current_agent, agents, w_i, w_rollouts, w_iters>>
    /\ UNCHANGED <<storeVars, learnerVars, updaterVars, readerVars, adjVars, episodeVars>>

\* lines 101-102 and 108: fetch the snapshot and append the seat
WorkerGetModel ==
    /\ w_pc = "get_model"
    /\ IF GetModelN(w_index) = <<>>
       THEN /\ w_pc' = "crashed"
            /\ w_err' = "snapshot_missing"
            /\ UNCHANGED <<agents, w_i>>
       ELSE /\ agents' = Append(agents,
                    Seat3(GetModelN(w_index)[1], ModelN(w_index), w_prob))
            /\ w_i' = w_i + 1
            /\ w_pc' = AfterSeat(w_i)
            /\ UNCHANGED w_err
    /\ UNCHANGED <<n_agents, current_agent, w_index, w_prob, w_rollouts, w_iters>>
    /\ UNCHANGED <<storeVars, learnerVars, updaterVars, readerVars, adjVars, episodeVars>>

\* line 110
WorkerShuffle ==
    /\ w_pc = "shuffle"
    /\ agents' \in Shuffles(agents)
    /\ w_pc' = "episode"
    /\ UNCHANGED <<n_agents, w_err, current_agent, w_i, w_index, w_prob,
                   w_rollouts, w_iters>>
    /\ UNCHANGED <<storeVars, learnerVars, updaterVars, readerVars, adjVars, episodeVars>>

\* line 112: utils.generate_episode(env, agents) returns the rollouts of the
\* episode, one per seat, or the environment faults and the exception
\* leaves worker().  It is given no handle on the store.
GenerateEpisode ==
    /\ w_pc = "episode"
    /\ \E fault \in BOOLEAN :
          IF fault
          THEN /\ w_pc' = "crashed"
               /\ w_err' = "environment_fault"
               /\ UNCHANGED w_rollouts
          ELSE /\ w_rollouts' = Len(agents)
               /\ w_pc' = "push"
               /\ UNCHANGED w_err
    /\ UNCHANGED <<n_agents, current_agent, agents, w_i, w_index, w_prob, w_iters>>
    /\ UNCHANGED <<storeVars, learnerVars, updaterVars, readerVars, adjVars, episodeVars>>

\* variant of WorkerPushRollouts: the push also runs after an environment
\* fault (as from a `finally`), with the seats of the abandoned episode
WorkerPushRolloutsAlways ==
    /\ \/ w_pc = "push" /\ w_pc' = "fetch" /\ w_iters' = w_iters + 1
          /\ rollouts' = rollouts + w_rollouts
       \/ w_pc = "crashed" /\ w_err = "environment_fault"
          /\ w_pc' = "pushed_after_fault" /\ w_iters' = w_iters
          /\ rollouts' = rollouts + Len(agents)
    /\ UNCHANGED <<model_latest, version_latest, op_models, qualities>>
    /\ UNCHANGED <<n_agents, w_err, current_agent, agents, w_i, w_index,
                   w_prob, w_rollouts>>
    /\ UNCHANGED <<learnerVars, updaterVars, readerVars, adjVars, episodeVars>>

\* line 114, and back to line 88
WorkerPushRollouts ==
    /\ w_pc = "push"
    /\ rollouts' = rollouts + w_rollouts
    /\ w_iters' = w_iters + 1
    /\ w_pc' = "fetch"
    /\ UNCHANGED <<model_latest, version_latest, op_models, qualities>>
    /\ UNCHANGED <<n_agents, w_err, current_agent, agents, w_i, w_index,
                   w_prob, w_rollouts>>
    /\ UNCHANGED <<learnerVars, updaterVars, readerVars, adjVars, episodeVars>>

\* ------------------------------------------------------------------ Next
\* the pool: the Learner promoting snapshots beside the callers of
\* update_opponent_quality
Next ==
    \/ AddOpponentPushModel
    \/ AddOpponentReadQualities
    \/ AddOpponentPushQuality
    \/ \E u \in Updaters : UpdateQualityCall(u)
    \/ \E u \in Updaters : UpdateQualityLlen(u)
    \/ \E u \in Updaters : UpdateQualityEval(u)

Spec == Init /\ [][Next]_vars

\* the latest pair: the Learner beside a reader of (blob, version)
NextLatest ==
    \/ UpdateModelDeleteModel
    \/ UpdateModelDeleteVersion
    \/ UpdateModelSetModel
    \/ UpdateModelSetVersion
    \/ AddOpponentPushModel
    \/ AddOpponentReadQualities
    \/ AddOpponentPushQuality
    \/ ReadLatest
    \/ ReadAgain

SpecLatest == Init /\ [][NextLatest]_vars

\* one worker, with any seat count, beside the Learner
InitWorker ==
    /\ InitStore /\ InitLearner /\ InitUpdaters /\ InitReader
    /\ InitWorkerLocals /\ InitAdjIdle /\ InitEpisodeIdle
    /\ n_agents \in 1..MaxAgents
    /\ w_pc = "fetch"

NextWorker ==
    \/ UpdateModelDeleteModel
    \/ UpdateModelDeleteVersion
    \/ UpdateModelSetModel
    \/ UpdateModelSetVersion
    \/ AddOpponentPushModel
    \/ AddOpponentReadQualities
    \/ AddOpponentPushQuality
    \/ WorkerFetchLatest
    \/ WorkerDraw
    \/ WorkerSample
    \/ WorkerGetModel
    \/ WorkerShuffle
    \/ GenerateEpisode
    \/ WorkerPushRollouts

SpecWorker == InitWorker /\ [][NextWorker]_vars

\* ------------------------------------ the adjusted probability on its own
\* the target fractions p in (0, 1) with denominator up to MaxDen
Fractions ==
    {[num |-> a, den |-> b] : a \in 1..(MaxDen - 1), b \in 2..MaxDen} \cap
    {f \in [num : 1..MaxDen, den : 1..MaxDen] : f.num < f.den}

InitAdj ==
    /\ InitStore /\ InitLearner /\ InitUpdaters /\ InitReader
    /\ InitWorkerLocals /\ InitEpisodeIdle
    /\ n_agents = 1
    /\ w_pc = "not_started"
    /\ adj_pc = "start"
    /\ adj_p \in Fractions
    /\ adj_n \in 2..MaxSeats
    /\ adj_out = [num |-> 0, den |-> 1]

\* line 96 for the inputs drawn
ComputeAdjusted ==
    /\ adj_pc = "start"
    /\ adj_out' = AdjustedProb(adj_p, adj_n)
    /\ adj_pc' = "done"
    /\ UNCHANGED <<adj_p, adj_n>>
    /\ UNCHANGED <<storeVars, learnerVars, updaterVars, readerVars, workerVars,
                   episodeVars>>

NextAdj == ComputeAdjusted

SpecAdj == InitAdj /\ [][NextAdj]_vars

\* ------------------------------------------- DefaultManager._episode
\* The environment (rocket_learn.envs.rlgym.RLGym) is driven through the
\* parallel multi-agent interface: reset(options) -> (observations, info),
\* step(actions) -> (observations, rewards, terminated, truncated, info),
\* state(), agents.  Its contract here is that of that interface: env.agents
\* lists the seats still active, a seat that terminates or is truncated in a
\* step leaves env.agents in that step, and the dictionaries step returns
\* are keyed by the seats that were active when step was called.

\* what one env.step can do to the seats it steps: each keeps running,
\* terminates or is truncated; at tick MaxSteps every seat ends
EnvStepOutcomes(stepping, tick) ==
    {o \in [stepping -> {"running", "terminated", "truncated"}] :
        tick >= MaxSteps => \A c \in stepping : o[c] # "running"}

\* lines 39-41: identifier_cars.setdefault(identifier, set()).add(car)
IdentifierCars(ci) ==
    [id \in {ci[c] : c \in DOMAIN ci} |-> {c \in DOMAIN ci : ci[c] = id}]

\* smallest car of a non-empty set: dicts keep insertion order, so the
\* loop of line 49 visits the identifiers in the order of their first car
FirstCar(cars) == CHOOSE c \in cars : \A d \in cars : c <= d

\* line 52: the identifiers whose dict comprehension raises KeyError
KeyErrorIdentifiers ==
    {id \in DOMAIN identifier_cars : ~(identifier_cars[id] \subseteq observations)}

\* lines 49-54: the identifiers agent.act is called for before the loop ends
\* or raises
ActedIdentifiers ==
    {id \in DOMAIN identifier_cars :
        \A f \in KeyErrorIdentifiers :
            FirstCar(identifier_cars[id]) < FirstCar(identifier_cars[f])}

\* lines 33-45: reset the environment and set up the locals
EpisodeReset ==
    /\ e_pc = "start"
    /\ env_agents' = DOMAIN car_identifier
    /\ env_tick' = 0
    /\ observations' = DOMAIN car_identifier
    /\ all_states' = <<0>>
    /\ identifier_cars' = IdentifierCars(car_identifier)
    /\ total_agent_steps' = 0
    /\ removed_cars' = {}
    /\ e_pc' = "act"
    /\ UNCHANGED <<e_err, car_identifier, terminated, truncated, end_calls,
                   act_after_end, e_agent_steps>>
    /\ UNCHANGED <<storeVars, learnerVars, updaterVars, readerVars, workerVars,
                   adjVars>>

\* lines 48-54: ask every agent for the actions of all its cars
EpisodeSelectActions ==
    /\ e_pc = "act"
    /\ act_after_end' = act_after_end \cup
          ((UNION {identifier_cars[id] : id \in ActedIdentifiers}) \ env_agents)
    /\ IF KeyErrorIdentifiers = {}
       THEN e_pc' = "step" /\ UNCHANGED e_err
       ELSE e_pc' = "raised" /\ e_err' = "KeyError"
    /\ UNCHANGED <<car_identifier, identifier_cars, env_agents, env_tick,
                   observations, terminated, truncated, all_states,
                   total_agent_steps, removed_cars, end_calls, e_agent_steps>>
    /\ UNCHANGED <<storeVars, learnerVars, updaterVars, readerVars, workerVars,
                   adjVars>>

\* lines 57-61: step the environment, or the environment faults
EpisodeStep ==
    /\ e_pc = "step"
    /\ \/ /\ e_pc' = "raised"
          /\ e_err' = "environment_fault"
          /\ UNCHANGED <<env_agents, env_tick, observations, terminated,
                         truncated, all_states, total_agent_steps,
                         e_agent_steps>>
       \/ \E o \in EnvStepOutcomes(env_agents, env_tick + 1) :
             /\ env_tick' = env_tick + 1
             /\ observations' = env_agents
             /\ terminated' = [c \in env_agents |-> o[c] = "terminated"]
             /\ truncated' = [c \in env_agents |-> o[c] = "truncated"]
             /\ env_agents' = {c \in env_agents : o[c] = "running"}
             /\ total_agent_steps' = total_agent_steps * Cardinality(env_agents')
             /\ all_states' = Append(all_states, env_tick')
             /\ e_agent_steps' = e_agent_steps + Cardinality(env_agents)
             /\ e_pc' = "ended"
             /\ UNCHANGED e_err
    /\ UNCHANGED <<car_identifier, identifier_cars, removed_cars, end_calls,
                   act_after_end>>
    /\ UNCHANGED <<storeVars, learnerVars, updaterVars, readerVars, workerVars,
                   adjVars>>

\* lines 64-73: for every car of env.agents that is terminated or truncated,
\* one agent.end call of its agent with that car alone (ended is emptied for
\* every car), and the car joins removed_cars
EpisodeNotifyEnded ==
    /\ e_pc = "ended"
    /\ LET done == {c \in env_agents : terminated[c] \/ truncated[c]}
       IN  /\ end_calls' = [c \in Cars |->
                              IF c \in done THEN end_calls[c] + 1 ELSE end_calls[c]]
           /\ removed_cars' = removed_cars \cup done
    /\ e_pc' = "check"
    /\ UNCHANGED <<e_err, car_identifier, identifier_cars, env_agents, env_tick,
                   observations, terminated, truncated, all_states,
                   total_agent_steps, act_after_end, e_agent_steps>>
    /\ UNCHANGED <<storeVars, learnerVars, updaterVars, readerVars, workerVars,
                   adjVars>>

\* lines 76-79: leave the loop when env.agents is empty
EpisodeCheckAgentsLeft ==
    /\ e_pc = "check"
    /\ e_pc' = IF env_agents = {} THEN "returned" ELSE "act"
    /\ UNCHANGED <<e_err, car_identifier, identifier_cars, env_agents, env_tick,
                   observations, terminated, truncated, all_states,
                   total_agent_steps, removed_cars, end_calls, act_after_end,
                   e_agent_steps>>
    /\ UNCHANGED <<storeVars, learnerVars, updaterVars, readerVars, workerVars,
                   adjVars>>

\* one episode, for every assignment of the cars to the two agents
InitEpisode ==
    /\ InitStore /\ InitLearner /\ InitUpdaters /\ InitReader
    /\ InitWorkerLocals /\ InitAdjIdle
    /\ n_agents = 1
    /\ w_pc = "not_started"
    /\ InitEpisodeLocals
    /\ e_pc = "start"
    /\ car_identifier \in [Cars -> Identifiers]

NextEpisode ==
    \/ EpisodeReset
    \/ EpisodeSelectActions
    \/ EpisodeStep
    \/ EpisodeNotifyEnded
    \/ EpisodeCheckAgentsLeft

SpecEpisode == InitEpisode /\ [][NextEpisode]_vars

\* ============================================================== claims

\* sum of the deltas of the callers 1..k that completed an update of index
RECURSIVE AppliedDeltas(_, _)
AppliedDeltas(k, index) ==
    IF k = 0 THEN 0
    ELSE AppliedDeltas(k - 1, index) +
         (IF u_pc[k] = "done" /\ u_index[k] = index THEN u_delta[k] ELSE 0)

\* C1: whatever the interleaving of the callers of update_opponent_quality,
\* the score stored at an index is the score the entry was created with plus
\* the sum of the deltas of all callers that completed an update of that
\* index: no update is lost.
C1_NoLostUpdate ==
    /\ Len(q_original) = Len(qualities)
    /\ \A i \in 1..Len(qualities) :
          qualities[i] = q_original[i] + AppliedDeltas(NUpdaters, i - 1)

\* C1 witness: two callers have completed an update of the same index
C1_Witness ==
    \E u, v \in Updaters :
        /\ u # v
        /\ u_pc[u] = "done" /\ u_pc[v] = "done"
        /\ u_index[u] = u_index[v]
        /\ u_delta[u] + u_delta[v] # 0

\* C2: the quality list is as long as the list of stored historical
\* snapshots in every reachable state, also in the middle of add_opponent.
C2_LengthsEqualAtAllTimes == Len(qualities) = Len(op_models)

\* C3: whenever no add_opponent call is in progress, the list of snapshots
\* and the list of qualities have the same length, however the calls were
\* interleaved with update_opponent_quality.
C3_LengthsEqualAfterPromote ==
    l_pc \notin {"ao_lrange", "ao_rpush"} => Len(op_models) = Len(qualities)

\* C3 witness: the second add_opponent has completed and an update of index
\* 0 overlapped it: its LLEN saw one entry (delta = 2 * Scale needs n = 1),
\* so it ran before the second RPUSH of a quality, and its EVAL ran after
\* the second LRANGE (the second entry was created with the old maximum 0).
C3_Witness ==
    /\ l_pc = "idle"
    /\ Len(op_models) = 2 /\ Len(qualities) = 2
    /\ q_original = <<0, 0>>
    /\ \E u \in Updaters :
          /\ u_pc[u] = "done" /\ u_index[u] = 0
          /\ u_delta[u] = 2 * Scale
          /\ qualities[1] >= 2 * Scale

\* C4: the quality add_opponent appends is the maximum of the qualities in
\* the list at the moment of the append, or 0 if the list is empty then,
\* under every interleaving with update_opponent_quality.
C4_AppendsCurrentMax ==
    [][Len(qualities') = Len(qualities) + 1 =>
          qualities'[Len(qualities')] = InitialQuality(qualities)]_vars

\* C5: a reader of the latest pair never obtains a blob together with a
\* version other than the one update_model was given with that blob (the
\* k-th call publishes blob [params |-> k] with version k).
C5_PairNeverMismatched ==
    (r_pc = "read" /\ r_blob # <<>>) => r_version = <<r_blob[1].params>>

\* C6: once an update_model call has completed, the worker's read of the
\* latest blob (line 89) never finds the key missing.
C6_FetchNeverMissing ==
    [][(n_published >= 1 /\ w_pc = "fetch" /\ w_pc' # "fetch") =>
          w_err' # "latest_missing"]_vars

\* C7: while the pool holds no historical snapshot the worker never invokes
\* get_opponent_index, and building the matchup does not fail on the empty
\* quality list.
C7_EmptyPoolShortCircuits ==
    Len(op_models) = 0 =>
        (w_pc # "sample" /\ w_err # "softmax_of_empty")

\* the matchup of the current iteration is complete
MatchupBuilt ==
    \/ w_pc \in {"shuffle", "episode", "push"}
    \/ w_pc = "fetch" /\ w_iters >= 1

\* C8: a built matchup has exactly n_agents seats, at least one of them
\* holding the latest policy read at the start of the iteration; with one
\* seat the matchup is that policy alone and the worker never draws or
\* samples.
C8_MatchupHasLatestSeat ==
    /\ MatchupBuilt =>
          /\ Len(agents) = n_agents
          /\ \E s \in 1..Len(agents) :
                /\ agents[s].version = MODEL_LATEST
                /\ agents[s].agent = current_agent
    /\ n_agents = 1 =>
          /\ w_pc \notin {"draw", "sample", "get_model"}
          /\ MatchupBuilt => agents = <<Seat2(current_agent, MODEL_LATEST)>>

\* C8 witness: a three-seat matchup with a historical opponent is being played
C8_Witness ==
    /\ w_pc = "episode"
    /\ n_agents = 3
    /\ \E s \in 1..Len(agents) : agents[s].version # MODEL_LATEST

\* C9: for the seat count n >= 2 and the target fraction p in (0, 1) drawn,
\* the adjusted probability p' satisfies 1/n + (n-1)/n * p' = p, that is
\* (den(p') + (n-1) * num(p')) * den(p) = num(p) * n * den(p'); and
\* n = 3, p = 4/5 gives p' = 7/10.
C9_AdjustedProbRestoresFraction ==
    adj_pc = "done" =>
        /\ adj_out.den > 0
        /\ (adj_out.den + (adj_n - 1) * adj_out.num) * adj_p.den
              = adj_p.num * adj_n * adj_out.den
        /\ (adj_n = 3 /\ adj_p = [num |-> 4, den |-> 5]) =>
              adj_out.num * 10 = 7 * adj_out.den

\* C9 witness: the adjusted probability for n = 3, p = 4/5 has been computed
C9_Witness ==
    adj_pc = "done" /\ adj_n = 3 /\ adj_p = [num |-> 4, den |-> 5]

\* C10: when an iteration of the worker has ended (rollouts pushed, back at
\* line 88), every historical opponent of its matchup has had a quality
\* update applied by the worker, for its index and with the probability
\* recorded at its selection.  The worker logs as caller 0.
C10_EveryOpponentUpdated ==
    (w_pc = "fetch" /\ w_iters >= 1) =>
        \A s \in 1..Len(agents) :
            agents[s].version # MODEL_LATEST =>
                \E e \in delta_log :
                    /\ e.caller = 0
                    /\ ModelN(e.index) = agents[s].version
                    /\ e.prob = agents[s].prob

\* C14: a call of update_opponent_quality with an index that is not below
\* the length of the quality list is dropped without a failure reaching the
\* caller: no caller ends with an exception (and the list is unchanged).
C14_StaleIndexDropped == \A u \in Updaters : u_pc[u] # "raised"

\* C15: an episode in which the environment faults adds nothing to the
\* rollout queue: the queue holds the rollouts of the completed iterations,
\* n_agents each, and nothing else, also after the fault.
C15_NoRolloutAfterFault ==
    /\ rollouts = w_iters * n_agents
    /\ w_err = "environment_fault" => w_pc = "crashed"

\* C15 witness: the environment faulted in the second episode, after the
\* first one was pushed
C15_Witness ==
    w_err = "environment_fault" /\ w_iters = 1 /\ n_agents >= 2

C17_UpdateTouchesOnlyItsIndex ==
    [][/\ Len(qualities') >= Len(qualities)
       /\ \A i \in 1..Len(qualities) :
             qualities'[i] # qualities[i] =>
                 /\ Len(qualities') = Len(qualities)
                 /\ \A j \in 1..Len(qualities) :
                        j # i => qualities'[j] = qualities[j]
                 /\ \E u \in Updaters :
                        /\ u_pc[u] = "eval" /\ u_pc'[u] = "done"
                        /\ u_index[u] = i - 1]_vars

\* C17 witness: an update of index 0 ran on a list of two entries (a delta
\* of half a unit needs n = 2 at LLEN) and the entry at index 1 still has
\* the value it was created with
C17_Witness ==
    /\ Len(qualities) = 2
    /\ qualities[2] = q_original[2]
    /\ \E u \in Updaters :
          /\ u_pc[u] = "done" /\ u_index[u] = 0
          /\ u_delta[u] * 2 \in {Scale, -Scale}
          /\ \A v \in Updaters : v # u => u_pc[v] = "idle"
          /\ qualities[1] = q_original[1] + u_delta[u]

\* C18: the n that update_opponent_quality has read at line 62, and divides
\* by, is the number of qualities the caller's prob was computed over.
C18_PoolSizeMatchesSelection ==
    \A u \in Updaters : u_pc[u] = "eval" => u_n[u] = u_over[u]

\* C19: for every n >= 2 and every p in (0, 1) drawn, the adjusted
\* probability lies in [0, 1].
C19_AdjustedProbInUnitInterval ==
    adj_pc = "done" => (0 <= adj_out.num /\ adj_out.num <= adj_out.den)

\* C19 as amended: for n >= 2 and p in (0, 1) with p >= 1/n, the adjusted
\* probability lies in [0, 1); for p < 1/n it is negative.
C19_AdjustedProbInUnitIntervalFromOneOverN ==
    adj_pc = "done" =>
        /\ adj_out.den > 0
        /\ adj_p.num * adj_n >= adj_p.den =>
              (0 <= adj_out.num /\ adj_out.num < adj_out.den)
        /\ adj_p.num * adj_n < adj_p.den => adj_out.num < 0

\* C19 witness: p = 1/n exactly, where the adjusted probability is 0
C19_Witness ==
    adj_pc = "done" /\ adj_p.num * adj_n = adj_p.den /\ adj_out.num = 0

\* C11: once the notification block of a step has run, every car that has
\* ended has been covered by exactly one agent.end call.
C11_EndedSeatNotifiedOnce ==
    e_pc \in {"check", "act", "step", "returned"} =>
        \A c \in DOMAIN car_identifier :
            c \notin env_agents => end_calls[c] = 1

\* C12: _episode stops only when no seat is active any more, having stepped
\* the environment until the last seat ended, and all_states holds the reset
\* state and one state per step.
C12_EndsWhenNoSeatActive ==
    (e_pc = "returned" \/ (e_pc = "raised" /\ e_err = "KeyError")) =>
        /\ env_agents = {}
        /\ Len(all_states) = env_tick + 1

\* C13: no action is ever requested for a car that has ended.
C13_NoActionForEndedSeat == act_after_end = {}

\* C20: the total_agent_steps _episode returns is the sum over the steps of
\* the number of seats stepped, and is positive.
C20_TotalAgentSteps ==
    e_pc = "returned" =>
        (total_agent_steps = e_agent_steps /\ total_agent_steps > 0)

====
